---- MODULE Spec2Model ----
(***************************************************************************)
(* Model of src/src/claims.rs: the JWT claim set (Claims, Registered) and  *)
(* its Component implementation (from_base64, to_base64).                  *)
(*                                                                         *)
(* claims.rs delegates JSON and base64 work to the rustc_serialize crate.  *)
(* The operators named after rustc_serialize items (parse_u64,             *)
(* parse_number, read_u64, read_str, read_option, read_struct_field,       *)
(* emit_option, ...) model what those calls do at the call sites of        *)
(* claims.rs.  JSON text is modelled lexically (literals, member lists in  *)
(* textual order, duplicate keys possible); the Json tree is modelled as   *)
(* the crate's enum (Null, Boolean, U64, I64, F64, String, Array, Object). *)
(* Integer widths are scaled from 64 bits down to Bits bits.               *)
(***************************************************************************)
EXTENDS Integers, Sequences, FiniteSets, TLC

VARIABLES claims, wire, origin, input, src, result, prev, checked

vars == <<claims, wire, origin, input, src, result, prev, checked>>

(***************************************************************************)
(* Bounds of the model.                                                    *)
(***************************************************************************)
\* width of the u64 / i64 types of the model, in bits
Bits == 4
\* largest number of members of a JSON object received from outside
MaxMembers == 2
\* largest number of entries (present registered fields plus private
\* entries) a caller builds into one claim set
MaxEntries == 2

RECURSIVE Pow2(_)
Pow2(n) == IF n = 0 THEN 1 ELSE 2 * Pow2(n - 1)

U64Mod == Pow2(Bits)
U64Max == U64Mod - 1
I64Min == 0 - Pow2(Bits - 1)

(***************************************************************************)
(* Option<T> and Result<T, E>.                                             *)
(***************************************************************************)
None == [some |-> FALSE]
Some(x) == [some |-> TRUE, v |-> x]

Ok(x) == [ok |-> TRUE, val |-> x]
Err(e) == [ok |-> FALSE, err |-> e]

(***************************************************************************)
(* The Json enum of rustc_serialize.                                       *)
(***************************************************************************)
JNull == [t |-> "Null"]
JBool(b) == [t |-> "Boolean", b |-> b]
JU64(n) == [t |-> "U64", n |-> n]
JI64(n) == [t |-> "I64", n |-> n]
JF64(neg, int, tenths) == [t |-> "F64", neg |-> neg, int |-> int, tenths |-> tenths]
JStr(s) == [t |-> "String", s |-> s]
JArr(items) == [t |-> "Array", items |-> items]
JObj(m) == [t |-> "Object", m |-> m]

\* BTreeMap<String, Json>
EmptyMap == [k \in {} |-> JNull]
Insert(m, k, v) == [x \in (DOMAIN m) \cup {k} |-> IF x = k THEN v ELSE m[x]]
Remove(m, k) == [x \in (DOMAIN m) \ {k} |-> m[x]]

(***************************************************************************)
(* JSON text, lexically.  Strings and digit runs are sequences of          *)
(* one-character strings.  frac is the digit after the decimal point, or   *)
(* NoFrac when the literal has no fraction part.                           *)
(***************************************************************************)
NoFrac == "none"
LInvalid == [l |-> "invalid"]
LNull == [l |-> "null"]
LBool(b) == [l |-> "bool", b |-> b]
LNum(neg, digits, frac) == [l |-> "num", neg |-> neg, digits |-> digits, frac |-> frac]
LStr(s) == [l |-> "str", s |-> s]
LArr(items) == [l |-> "arr", items |-> items]
LObj(members) == [l |-> "obj", members |-> members]
Member(k, v) == [key |-> k, val |-> v]

DigitChars == <<"0", "1", "2", "3", "4", "5", "6", "7", "8", "9">>
IsDigit(c) == \E i \in 1..10 : DigitChars[i] = c
DigitVal(c) == (CHOOSE i \in 1..10 : DigitChars[i] = c) - 1

\* u64 / i64 to_string
RECURSIVE ToDigits(_)
ToDigits(n) ==
  IF n < 10 THEN <<DigitChars[n + 1]>>
  ELSE Append(ToDigits(n \div 10), DigitChars[(n % 10) + 1])

(***************************************************************************)
(* Json::from_str (claims.rs lines 49 and 77): the rustc_serialize parser. *)
(***************************************************************************)
\* Parser::parse_u64, the digit loop.  Which rustc_serialize is linked is
\* not fixed by claims.rs, and the releases differ here: the later ones
\* accumulate with checked_mul / checked_add and report InvalidNumber on
\* overflow (checked); the earlier ones accumulate with wrapping arithmetic
\* and test the sum against last_accum, which stays 0 (~checked).
RECURSIVE accumulate(_, _, _)
accumulate(digits, i, accum) ==
  IF i > Len(digits) THEN Ok(accum)
  ELSE LET sum == accum * 10 + DigitVal(digits[i])
       IN IF checked
          THEN IF sum > U64Max THEN Err("InvalidNumber")
               ELSE accumulate(digits, i + 1, sum)
          ELSE IF sum % U64Mod <= 0 THEN Err("InvalidNumber")
               ELSE accumulate(digits, i + 1, sum % U64Mod)

parse_u64(digits) ==
  IF digits = <<>> THEN Err("InvalidNumber")
  ELSE IF digits[1] = "0"
       THEN IF Len(digits) > 1 THEN Err("InvalidNumber") ELSE Ok(0)
       ELSE accumulate(digits, 1, 0)

\* u64 as i64, and i64::wrapping_neg
as_i64(u) == IF u >= Pow2(Bits - 1) THEN u - U64Mod ELSE u
as_u64(i) == IF i < 0 THEN i + U64Mod ELSE i
wrapping_neg(i) == IF i = I64Min THEN i ELSE 0 - i

\* Parser::parse_number
parse_number(lit) ==
  LET r == parse_u64(lit.digits)
  IN IF ~r.ok THEN r
     ELSE IF lit.frac # NoFrac THEN Ok(JF64(lit.neg, r.val, lit.frac))
     ELSE IF lit.neg
          THEN LET res == wrapping_neg(as_i64(r.val))
               IN IF res > 0 THEN Err("InvalidNumber") ELSE Ok(JI64(res))
          ELSE Ok(JU64(r.val))

\* Builder::build_value / build_array / build_object: a later member with
\* the same key replaces an earlier one (BTreeMap::insert).
RECURSIVE ParseValue(_), build_array(_, _, _), build_object(_, _, _)
build_array(items, i, acc) ==
  IF i > Len(items) THEN Ok(JArr(acc))
  ELSE LET p == ParseValue(items[i])
       IN IF ~p.ok THEN p ELSE build_array(items, i + 1, Append(acc, p.val))

build_object(members, i, acc) ==
  IF i > Len(members) THEN Ok(JObj(acc))
  ELSE LET p == ParseValue(members[i].val)
       IN IF ~p.ok THEN p
          ELSE build_object(members, i + 1, Insert(acc, members[i].key, p.val))

ParseValue(lex) ==
  CASE lex.l = "null" -> Ok(JNull)
    [] lex.l = "bool" -> Ok(JBool(lex.b))
    [] lex.l = "num" -> parse_number(lex)
    [] lex.l = "str" -> Ok(JStr(lex.s))
    [] lex.l = "arr" -> build_array(lex.items, 1, <<>>)
    [] lex.l = "obj" -> build_object(lex.members, 1, EmptyMap)
    [] OTHER -> Err("SyntaxError")

Json_from_str(text) == ParseValue(text)

(***************************************************************************)
(* json::encode (claims.rs lines 76 and 84): the rustc_serialize encoder.  *)
(***************************************************************************)
\* iteration order of BTreeMap<String, Json>: keys in ascending order
KeyOrder == <<"admin", "aud", "exp", "iat", "iss", "jti", "name", "nbf", "sub">>

Abs(i) == IF i < 0 THEN 0 - i ELSE i

\* Encodable for Json
RECURSIVE SerializeValue(_), emit_map(_, _)
emit_map(m, i) ==
  IF i > Len(KeyOrder) THEN <<>>
  ELSE IF KeyOrder[i] \in DOMAIN m
       THEN <<Member(KeyOrder[i], SerializeValue(m[KeyOrder[i]]))>> \o emit_map(m, i + 1)
       ELSE emit_map(m, i + 1)

SerializeValue(j) ==
  CASE j.t = "Null" -> LNull
    [] j.t = "Boolean" -> LBool(j.b)
    [] j.t = "U64" -> LNum(FALSE, ToDigits(j.n), NoFrac)
    [] j.t = "I64" -> LNum(j.n < 0, ToDigits(Abs(j.n)), NoFrac)
    [] j.t = "F64" -> LNum(j.neg, ToDigits(j.int), j.tenths)
    [] j.t = "String" -> LStr(j.s)
    [] j.t = "Array" -> LArr([i \in 1..Len(j.items) |-> SerializeValue(j.items[i])])
    [] j.t = "Object" -> LObj(emit_map(j.m, 1))

\* json::encode(&tree) for tree: BTreeMap<String, Json>
json_encode_tree(tree) == LObj(emit_map(tree, 1))

(***************************************************************************)
(* The data model: Registered and Claims.                                  *)
(***************************************************************************)
\* the fields of struct Registered, in declaration order
RegisteredFields == <<"iss", "sub", "aud", "exp", "nbf", "iat", "jti">>
FieldSet == {RegisteredFields[i] : i \in 1..Len(RegisteredFields)}
\* the declared type of a field of Registered
FieldType(f) == IF f \in {"exp", "nbf", "iat"} THEN "u64" ELSE "String"

\* Default::default() for Registered and for Claims
Registered_default == [f \in FieldSet |-> None]
Claims_default == [reg |-> Registered_default, private |-> EmptyMap]

\* Claims::new
Claims_new(reg) == [reg |-> reg, private |-> EmptyMap]

(***************************************************************************)
(* Decodable::decode for Registered (claims.rs line 66): the derived       *)
(* decoder driven by rustc_serialize's json::Decoder.                      *)
(***************************************************************************)
\* str::parse::<u64>(): digits only, checked arithmetic
RECURSIVE str_accumulate(_, _, _)
str_accumulate(s, i, acc) ==
  IF i > Len(s) THEN Ok(acc)
  ELSE IF ~IsDigit(s[i]) THEN Err("ParseIntError")
  ELSE LET a == acc * 10 + DigitVal(s[i])
       IN IF a > U64Max THEN Err("ParseIntError") ELSE str_accumulate(s, i + 1, a)

str_parse_u64(s) == IF s = <<>> THEN Err("ParseIntError") ELSE str_accumulate(s, 1, 0)

\* Decoder::read_u64 (the read_primitive macro): integers are cast with a
\* range test, floats are refused, and a String is parsed as a number.
read_u64(j) ==
  CASE j.t = "I64" -> LET other == as_u64(j.n)
                      IN IF j.n = as_i64(other) /\ ((other > 0) = (j.n > 0))
                         THEN Ok(other) ELSE Err("ExpectedError")
    [] j.t = "U64" -> Ok(j.n)
    [] j.t = "F64" -> Err("ExpectedError")
    [] j.t = "String" -> LET r == str_parse_u64(j.s)
                         IN IF r.ok THEN r ELSE Err("ExpectedError")
    [] OTHER -> Err("ExpectedError")

\* Decoder::read_str
read_str(j) == IF j.t = "String" THEN Ok(j.s) ELSE Err("ExpectedError")

\* Decoder::read_option followed by the decode of the field's type
read_option(j, ty) ==
  IF j.t = "Null" THEN Ok(None)
  ELSE LET r == IF ty = "u64" THEN read_u64(j) ELSE read_str(j)
       IN IF r.ok THEN Ok(Some(r.val)) ELSE r

\* Decoder::read_struct_field: a missing key is read as Null
read_struct_field(obj, name) ==
  IF name \in DOMAIN obj THEN read_option(obj[name], FieldType(name))
  ELSE LET r == read_option(JNull, FieldType(name))
       IN IF r.ok THEN r ELSE Err("MissingFieldError")

decode_Registered(obj) ==
  IF \E f \in FieldSet : ~read_struct_field(obj, f).ok
  THEN Err("DecoderError")
  ELSE Ok([f \in FieldSet |-> read_struct_field(obj, f).val])

(***************************************************************************)
(* json::encode(&self.reg) (claims.rs line 76): the derived encoder.       *)
(***************************************************************************)
\* Encoder::emit_option: None is written as null (emit_option_none is
\* emit_nil), Some(v) as the encoding of v
emit_option(o, ty) ==
  IF ~o.some THEN LNull
  ELSE IF ty = "u64" THEN LNum(FALSE, ToDigits(o.v), NoFrac)
  ELSE LStr(o.v)

\* Encoder::emit_struct / emit_struct_field: every field, in order
json_encode_Registered(reg) ==
  LObj([i \in 1..Len(RegisteredFields) |->
          Member(RegisteredFields[i],
                 emit_option(reg[RegisteredFields[i]], FieldType(RegisteredFields[i])))])

(***************************************************************************)
(* base64 and UTF-8 (claims.rs lines 47, 48 and 85).  A raw text is valid  *)
(* base64 or not, its bytes are valid UTF-8 or not, and it carries a JSON  *)
(* text.                                                                   *)
(***************************************************************************)
ToBase64(text) == [b64ok |-> TRUE, utf8ok |-> TRUE, text |-> text]
BadBase64 == [b64ok |-> FALSE, utf8ok |-> FALSE, text |-> LInvalid]
BadUtf8 == [b64ok |-> TRUE, utf8ok |-> FALSE, text |-> LInvalid]

\* error.rs: the conversion of a collaborator's error into Error
ErrorFrom(e) ==
  CASE e = "FromBase64Error" -> "Encoding"
    [] e = "FromUtf8Error" -> "Encoding"
    [] e = "ParserError" -> "Format"
    [] e = "DecoderError" -> "Decode"
    [] OTHER -> "Serialization"

(***************************************************************************)
(* impl Component for Claims.                                              *)
(***************************************************************************)
FIELDS == <<"iss", "sub", "aud", "exp", "nbf", "iat", "jti">>

\* IsField with a scan that stops one entry early
IsField_short(key) == \E i \in 1..(Len(FIELDS) - 1) : FIELDS[i] = key

\* FIELDS.iter().any(|f| f == key)
IsField(key) == \E i \in 1..Len(FIELDS) : FIELDS[i] = key

\* match_Object with a fallback arm that yields an empty object
match_Object_lenient(json) ==
  IF json.t = "Object" THEN Ok(json.m) ELSE Ok(EmptyMap)

\* match ... { Json::Object(x) => x, _ => return Err(Error::Format) }
match_Object(json) ==
  IF json.t = "Object" THEN Ok(json.m) ELSE Err("Format")

\* partition with the predicate negated
partition_negated(tree) ==
  [reg |-> [k \in {x \in DOMAIN tree : ~IsField(x)} |-> tree[k]],
   pri |-> [k \in {x \in DOMAIN tree : IsField(x)} |-> tree[k]]]

\* tree.into_iter().partition(...)
partition(tree) ==
  [reg |-> [k \in {x \in DOMAIN tree : IsField(x)} |-> tree[k]],
   pri |-> [k \in {x \in DOMAIN tree : ~IsField(x)} |-> tree[k]]]

\* extend that keeps the entry already in the tree
extend_keep(tree, private) ==
  [k \in (DOMAIN tree) \cup (DOMAIN private) |->
     IF k \in DOMAIN tree THEN tree[k] ELSE private[k]]

\* tree.extend(self.private.clone())
extend(tree, private) ==
  [k \in (DOMAIN tree) \cup (DOMAIN private) |->
     IF k \in DOMAIN private THEN private[k] ELSE tree[k]]

from_base64(raw) ==
  IF ~raw.b64ok THEN Err(ErrorFrom("FromBase64Error"))
  ELSE IF ~raw.utf8ok THEN Err(ErrorFrom("FromUtf8Error"))
  ELSE LET p == Json_from_str(raw.text)
       IN IF ~p.ok THEN Err(ErrorFrom("ParserError"))
          ELSE LET m == match_Object(p.val)
               IN IF ~m.ok THEN m
                  ELSE LET parts == partition(m.val)
                           d == decode_Registered(parts.reg)
                       IN IF ~d.ok THEN Err(ErrorFrom("DecoderError"))
                          ELSE Ok([reg |-> d.val, private |-> parts.pri])

to_base64(c) ==
  LET p == Json_from_str(json_encode_Registered(c.reg))
  IN IF ~p.ok THEN Err(ErrorFrom("ParserError"))
     ELSE LET m == match_Object(p.val)
          IN IF ~m.ok THEN m
             ELSE Ok(ToBase64(json_encode_tree(extend(m.val, c.private))))

(***************************************************************************)
(* The values callers and the network supply.                              *)
(***************************************************************************)
StrA == <<"a">>
Str7 == <<"7">>
\* the digits of a number one past the largest u64
StrBig == ToDigits(U64Mod)

\* values a caller writes into a registered field
RegVals(f) ==
  IF FieldType(f) = "u64" THEN {Some(0), Some(7), Some(U64Max)}
  ELSE {Some(StrA), Some(Str7)}

\* keys and values a caller inserts into the private map (it is a public
\* BTreeMap<String, Json>, so every key can be inserted)
PrivKeys == {"name", "admin", "iss", "exp"}
PrivVals == {JNull, JBool(TRUE), JU64(7), JI64(7), JStr(StrA), JStr(Str7),
             JF64(FALSE, 7, "5"), JArr(<<JU64(7)>>)}

Entries(c) ==
  Cardinality({f \in FieldSet : c.reg[f].some}) + Cardinality(DOMAIN c.private)

\* the values of Registered passed to Claims::new
RECURSIVE RegisteredsUpTo(_)
RegisteredsUpTo(n) ==
  IF n = 0 THEN {Registered_default}
  ELSE LET fewer == RegisteredsUpTo(n - 1)
       IN fewer \cup UNION {UNION {{[r EXCEPT ![f] = v] : v \in RegVals(f)} : f \in FieldSet}
                              : r \in fewer}

Registereds == RegisteredsUpTo(MaxEntries)

\* JSON values met in received text
NumLits ==
  {LNum(FALSE, <<"0">>, NoFrac), LNum(FALSE, <<"7">>, NoFrac),
   LNum(FALSE, ToDigits(U64Max), NoFrac),
   LNum(FALSE, ToDigits(U64Mod), NoFrac),
   LNum(FALSE, ToDigits(U64Mod + 1), NoFrac),
   LNum(FALSE, <<"0", "7">>, NoFrac),
   LNum(TRUE, <<"0">>, NoFrac), LNum(TRUE, <<"7">>, NoFrac),
   LNum(TRUE, ToDigits(Pow2(Bits - 1) + 1), NoFrac),
   LNum(FALSE, <<"7">>, "5"), LNum(FALSE, <<"7">>, "0")}

\* exp is met with every kind of value; nbf and iat with the numbers out of
\* range; the other keys with a value of the right type and of a wrong one
WireVals(k) ==
  CASE k = "exp" ->
         NumLits \cup {LNull, LBool(TRUE), LStr(StrA), LStr(Str7), LStr(StrBig), LArr(<<>>)}
    [] k \in {"nbf", "iat"} ->
         {LNum(FALSE, <<"7">>, NoFrac), LNum(FALSE, ToDigits(U64Mod + 1), NoFrac),
          LNum(TRUE, <<"7">>, NoFrac), LNum(FALSE, <<"7">>, "5"), LStr(Str7)}
    [] k = "iss" -> {LNull, LStr(StrA), LNum(FALSE, <<"7">>, NoFrac)}
    [] k \in {"sub", "aud", "jti"} -> {LStr(StrA), LBool(TRUE)}
    [] OTHER -> {LStr(StrA), LNum(FALSE, <<"7">>, "5"), LArr(<<LNull>>)}

WireKeys == FieldSet \cup {"name"}
WireMembers == UNION {{Member(k, v) : v \in WireVals(k)} : k \in WireKeys}

RECURSIVE MemberSeqs(_)
MemberSeqs(n) ==
  IF n = 0 THEN {<<>>}
  ELSE LET shorter == MemberSeqs(n - 1)
       IN shorter \cup {Append(ms, m) : ms \in shorter, m \in WireMembers}

\* the raw texts received from outside
RawInputs ==
  {BadBase64, BadUtf8, ToBase64(LInvalid)}
    \cup {ToBase64(v) : v \in NumLits \cup {LNull, LBool(TRUE), LStr(StrA), LArr(<<>>),
                                            LArr(<<LStr(StrA)>>)}}
    \cup {ToBase64(LObj(ms)) : ms \in MemberSeqs(MaxMembers)}

(***************************************************************************)
(* The state machine.  claims is the claim set the caller holds; wire is   *)
(* the encoded text in flight; origin is the claim set wire was encoded    *)
(* from.  input, src, result record the last from_base64 call: its         *)
(* argument, the claim set that argument was encoded from, and what the    *)
(* call returned.  prev is the text claims was decoded from, kept while    *)
(* claims is not written to.  checked tells which digit loop the linked    *)
(* rustc_serialize has (see accumulate); it never changes.                 *)
(***************************************************************************)
Init ==
  /\ claims = Claims_default
  /\ wire = None
  /\ origin = None
  /\ input = None
  /\ src = None
  /\ result = None
  /\ prev = None
  /\ checked \in BOOLEAN

\* a claim set is built and written to until it is serialized
Forget == /\ input' = None /\ src' = None /\ result' = None /\ prev' = None

\* let claims: Claims = Default::default()
Default ==
  /\ wire = None
  /\ claims # Claims_default
  /\ claims' = Claims_default
  /\ Forget
  /\ UNCHANGED <<wire, origin, checked>>

\* Claims::new(reg)
New ==
  /\ wire = None
  /\ claims = Claims_default
  /\ \E reg \in Registereds : claims' = Claims_new(reg)
  /\ Forget
  /\ UNCHANGED <<wire, origin, checked>>

\* claims.reg.f = v
SetReg ==
  /\ wire = None
  /\ \E f \in FieldSet : \E v \in RegVals(f) \cup {None} :
       LET c == [claims EXCEPT !.reg[f] = v]
       IN /\ Entries(c) <= MaxEntries
          /\ claims' = c
  /\ Forget
  /\ UNCHANGED <<wire, origin, checked>>

\* claims.private.insert(k, v)
PrivateInsert ==
  /\ wire = None
  /\ \E k \in PrivKeys : \E v \in PrivVals :
       LET c == [claims EXCEPT !.private = Insert(claims.private, k, v)]
       IN /\ Entries(c) <= MaxEntries
          /\ claims' = c
  /\ Forget
  /\ UNCHANGED <<wire, origin, checked>>

\* claims.private.remove(k)
PrivateRemove ==
  /\ wire = None
  /\ \E k \in DOMAIN claims.private :
       claims' = [claims EXCEPT !.private = Remove(claims.private, k)]
  /\ Forget
  /\ UNCHANGED <<wire, origin, checked>>

\* let enc = claims.to_base64()
Encode ==
  /\ wire = None
  /\ LET r == to_base64(claims)
     IN /\ r.ok
        /\ wire' = Some(r.val)
  /\ origin' = Some(claims)
  /\ UNCHANGED <<claims, input, src, result, prev, checked>>

\* Claims::from_base64(enc)
Decode ==
  /\ wire # None
  /\ LET r == from_base64(wire.v)
     IN /\ result' = Some(r)
        /\ claims' = IF r.ok THEN r.val ELSE claims
        /\ prev' = IF r.ok /\ origin # None THEN wire ELSE None
  /\ input' = wire
  /\ src' = origin
  /\ wire' = None
  /\ origin' = None
  /\ UNCHANGED checked

Next == Default \/ New \/ SetReg \/ PrivateInsert \/ PrivateRemove \/ Encode \/ Decode

Spec == Init /\ [][Next]_vars

\* a text arrives from outside and is decoded; the result may be re-encoded
InitWire ==
  /\ claims = Claims_default
  /\ wire \in {Some(r) : r \in RawInputs}
  /\ origin = None
  /\ input = None
  /\ src = None
  /\ result = None
  /\ prev = None
  /\ checked \in BOOLEAN

NextWire == Decode \/ Encode

SpecWire == InitWire /\ [][NextWire]_vars

(***************************************************************************)
(* Properties.                                                             *)
(***************************************************************************)
\* a Json value that parsing its own serialization gives back
RoundTripStable(v) == ParseValue(SerializeValue(v)) = Ok(v)

\* a claim set whose private keys are not reserved and whose private
\* values are round-trip-stable
ValidClaims(c) ==
  \A k \in DOMAIN c.private : k \notin FieldSet /\ RoundTripStable(c.private[k])

\* the members of the JSON object in a raw text
MembersOf(raw) == raw.text.members
KeysEmitted(raw) == {MembersOf(raw)[i].key : i \in 1..Len(MembersOf(raw))}

\* C1: round-trip law: decoding the encoding of a valid claim set succeeds
\* and returns a claim set equal to the one encoded.
RoundTripLaw ==
  (result # None /\ src # None /\ ValidClaims(src.v)) => result.v = Ok(src.v)

RoundTripCase ==
  /\ result # None /\ src # None /\ ValidClaims(src.v)
  /\ src.v.reg["jti"].some
  /\ ~src.v.reg["iss"].some
  /\ DOMAIN src.v.private # {}

\* C2: partition disjointness: after a successful from_base64 the private
\* map of the returned claim set holds no reserved key.
PartitionDisjoint ==
  (result # None /\ result.v.ok) => (DOMAIN result.v.val.private) \cap FieldSet = {}

PartitionCase ==
  /\ result # None /\ result.v.ok /\ src = None
  /\ DOMAIN result.v.val.private # {}
  /\ result.v.val.reg["exp"].some

\* C3: absence on encode: a registered field that is None in the claim set
\* has no member in the JSON object to_base64 produces.
AbsentFieldsOmitted ==
  (wire # None /\ origin # None) =>
    \A f \in FieldSet : ~origin.v.reg[f].some => f \notin KeysEmitted(wire.v)

\* the registered field o holds the Json value j
FieldHolds(f, o, j) ==
  CASE j.t = "Null" -> o = None
    [] j.t = "String" -> FieldType(f) = "String" /\ o.some /\ o.v = j.s
    [] j.t \in {"U64", "I64"} -> FieldType(f) = "u64" /\ o.some /\ o.v = j.n
    [] OTHER -> FALSE

\* C4: decode equals the reference partition: on success the private map is
\* exactly the non-reserved entries of the parsed object, every reserved
\* key of the object is held by its registered field with the object's
\* value, and every reserved key the object lacks leaves its field None.
DecodeIsPartition ==
  (result # None /\ result.v.ok) =>
    LET O == Json_from_str(input.v.text).val.m
        c == result.v.val
    IN /\ c.private = [k \in (DOMAIN O) \ FieldSet |-> O[k]]
       /\ \A f \in FieldSet :
            IF f \in DOMAIN O THEN FieldHolds(f, c.reg[f], O[f]) ELSE c.reg[f] = None

\* C5: claim set disjointness: in every reachable state the keys of the
\* private map are disjoint from the reserved names.
PrivateDisjoint == (DOMAIN claims.private) \cap FieldSet = {}

\* the text parses to an object whose exp is a JSON string
ExpIsString(raw) ==
  /\ raw.b64ok /\ raw.utf8ok
  /\ LET p == Json_from_str(raw.text)
     IN /\ p.ok /\ p.val.t = "Object"
        /\ "exp" \in DOMAIN p.val.m
        /\ p.val.m["exp"].t = "String"

\* C6: type-mismatch rejection: when exp is a JSON string, whatever its
\* content, from_base64 fails with a DecodeError.
ExpStringRejected ==
  (result # None /\ ExpIsString(input.v)) => result.v = Err("Decode")

\* the decimal value of a digit run
RECURSIVE DecimalValue(_)
DecimalValue(ds) ==
  IF ds = <<>> THEN 0
  ELSE 10 * DecimalValue(SubSeq(ds, 1, Len(ds) - 1)) + DigitVal(ds[Len(ds)])

\* a number literal that is negative, fractional or above the u64 range
OutOfRange(lit) ==
  /\ lit.l = "num"
  /\ \/ lit.neg /\ DecimalValue(lit.digits) > 0
     \/ lit.frac \notin {NoFrac, "0"}
     \/ DecimalValue(lit.digits) > U64Max

\* the object of the text gives f an out-of-range number in its last member
\* for f, and the text without the members for f decodes
CarriesOutOfRange(raw, f) ==
  /\ raw.b64ok /\ raw.utf8ok /\ raw.text.l = "obj"
  /\ LET ms == raw.text.members
         at == {i \in 1..Len(ms) : ms[i].key = f}
     IN /\ at # {}
        /\ OutOfRange(ms[CHOOSE i \in at : \A j \in at : j <= i].val)
        /\ from_base64(ToBase64(LObj(SelectSeq(ms, LAMBDA m : m.key # f)))).ok

\* C7: numeric-range rejection: when exp, nbf or iat is a number that is
\* negative, fractional or greater than the largest u64, from_base64 fails
\* with a DecodeError and returns no claim set.
NumericRangeRejected ==
  \A f \in {"exp", "nbf", "iat"} :
    (result # None /\ CarriesOutOfRange(input.v, f)) => result.v = Err("Decode")

\* the text is valid JSON whose top-level value is not an object
TopLevelNotObject(raw) ==
  /\ raw.b64ok /\ raw.utf8ok
  /\ LET p == Json_from_str(raw.text) IN p.ok /\ p.val.t # "Object"

\* C8: non-object rejection: valid JSON whose top level is not an object
\* makes from_base64 fail with FormatError and return no claim set.
NonObjectRejected ==
  (result # None /\ TopLevelNotObject(input.v)) => result.v = Err("Format")

NonObjectCase ==
  /\ result # None /\ TopLevelNotObject(input.v)
  /\ input.v.text.l = "arr"

\* the members of the emitted object with key k
MembersAt(raw, k) == {i \in 1..Len(MembersOf(raw)) : MembersOf(raw)[i].key = k}

\* C9: merge policy on encode: a key of the private map is emitted exactly
\* once and with the private map's value, also when a registered field has
\* the same name; every registered field without a private entry of its
\* name is emitted with the registered value; nothing else is emitted.
MergePolicy ==
  (wire # None /\ origin # None) =>
    LET c == origin.v
        ms == MembersOf(wire.v)
    IN /\ \A k \in DOMAIN c.private :
            /\ Cardinality(MembersAt(wire.v, k)) = 1
            /\ \A i \in MembersAt(wire.v, k) : ms[i].val = SerializeValue(c.private[k])
       /\ \A f \in FieldSet \ DOMAIN c.private :
            /\ Cardinality(MembersAt(wire.v, f)) = 1
            /\ \A i \in MembersAt(wire.v, f) :
                 ms[i].val = emit_option(c.reg[f], FieldType(f))
       /\ KeysEmitted(wire.v) = FieldSet \cup DOMAIN c.private

MergeCollisionCase ==
  /\ wire # None /\ origin # None
  /\ \E k \in (DOMAIN origin.v.private) \cap FieldSet : origin.v.reg[k].some

\* C10: re-encode stability: when the encoding of a claim set decodes, the
\* encoding of the decoded claim set is the same text.
ReEncodeStable ==
  (prev # None /\ wire # None) => wire = prev

====
